---------------------------- MODULE Spec2Model ----------------------------
(***************************************************************************)
(* A model of the EFI portfolio tracker (src/main.py): the five tables of  *)
(* the remote store, the per-session script runs of the Streamlit page     *)
(* (login gate, once-per-session refresh, the shares/options forms), and   *)
(* the pure valuation helpers.                                             *)
(*                                                                         *)
(* Money and prices are exact rationals <<n, d>> (d > 0, lowest terms);    *)
(* quantities are integers.  Binary floating-point rounding of the Python  *)
(* floats is outside the model.                                            *)
(***************************************************************************)
EXTENDS Integers, Sequences, FiniteSets, TLC

(***************************************************************************)
(* Bounds of the model.                                                    *)
(***************************************************************************)
MaxLog == 4
MaxRuns == 2
MaxQty == 3

(***************************************************************************)
(* Exact rational arithmetic.                                              *)
(***************************************************************************)
Abs(x) == IF x < 0 THEN -x ELSE x

RECURSIVE Gcd(_, _)
Gcd(a, b) == IF b = 0 THEN a ELSE Gcd(b, a % b)

Norm(n, d) ==
    LET s == IF d < 0 THEN -1 ELSE 1
        g == Gcd(Abs(n), Abs(d))
    IN  IF n = 0 THEN <<0, 1>> ELSE <<(s * n) \div g, (s * d) \div g>>

R(i) == <<i, 1>>
RAdd(x, y) == Norm(x[1] * y[2] + y[1] * x[2], x[2] * y[2])
RSub(x, y) == Norm(x[1] * y[2] - y[1] * x[2], x[2] * y[2])
RMul(x, y) == Norm(x[1] * y[1], x[2] * y[2])
RDiv(x, y) == Norm(x[1] * y[2], x[2] * y[1])
RLe(x, y) == x[1] * y[2] <= y[1] * x[2]
RLt(x, y) == x[1] * y[2] < y[1] * x[2]
RMin(x, y) == IF RLe(x, y) THEN x ELSE y
RMax(x, y) == IF RLe(x, y) THEN y ELSE x


(***************************************************************************)
(* Python dict helpers: a dict is a function; its keys are its DOMAIN.     *)
(***************************************************************************)
EmptyDict == <<>>
Get(d, k, default) == IF k \in DOMAIN d THEN d[k] ELSE default

(***************************************************************************)
(* f"{strike:.2f}": the strike rounded to two decimals (ties to even).     *)
(* The resulting text "150.00" is represented by its number of cents,      *)
(* 15000; the chain's strike keys are represented the same way.            *)
(***************************************************************************)
Format2f(x) ==
    LET n == 100 * x[1]
        d == x[2]
        q == n \div d
        r == n - q * d
    IN  IF 2 * r > d THEN q + 1
        ELSE IF 2 * r < d THEN q
        ELSE IF q % 2 = 0 THEN q ELSE q + 1

(* str.upper() on the texts the model uses *)
Upper(s) ==
    CASE s \in {"call", "Call", "CALL"} -> "CALL"
      [] s \in {"put", "Put", "PUT"} -> "PUT"
      [] s \in {"aapl", "AAPL"} -> "AAPL"
      [] s \in {"msft", "MSFT"} -> "MSFT"
      [] OTHER -> s

(***************************************************************************)
(* get_options_chain: the HTTP response of the chain provider for a        *)
(* symbol; the JSON body on status 200, None otherwise.                    *)
(***************************************************************************)
HTTP_OK == 200

get_options_chain(response) ==
    IF response.status_code = HTTP_OK
    THEN [is_none |-> FALSE, json |-> response.json]
    ELSE [is_none |-> TRUE, json |-> EmptyDict]

Raise(e) == [ok |-> FALSE, err |-> e, val |-> <<0, 1>>]
Return(v) == [ok |-> TRUE, err |-> "", val |-> v]

AskInvalidBug(ask) == RLt(ask, R(0))
AskInvalid(ask) == RLe(ask, R(0))

MidPrice(bid, ask) == RDiv(RAdd(bid, ask), R(2))

(***************************************************************************)
(* fetch_option_price, on the response get_options_chain(symbol) gets.     *)
(* Each Raise names the ValueError the code raises at that point.          *)
(***************************************************************************)
fetch_option_price(response, expiration, strike, call_put) ==
    LET data == get_options_chain(response)
    IN  IF data.is_none \/ DOMAIN data.json = {} \/ "options" \notin DOMAIN data.json
        THEN Raise("chain_not_found")
        ELSE
        LET all_opts == data.json["options"]
        IN  IF expiration \notin DOMAIN all_opts
            THEN Raise("no_expiration")
            ELSE
            LET cp_key == IF Upper(call_put) = "CALL" THEN "c" ELSE "p"
                cp_dict == Get(all_opts[expiration], cp_key, EmptyDict)
            IN  IF DOMAIN cp_dict = {}
                THEN Raise("no_side")
                ELSE
                LET strike_key == Format2f(strike)
                IN  IF strike_key \notin DOMAIN cp_dict
                    THEN Raise("no_strike")
                    ELSE
                    LET option_data == cp_dict[strike_key]
                        bid == Get(option_data, "b", R(0))
                        ask == Get(option_data, "a", R(0))
                    IN  IF AskInvalid(ask)
                        THEN Raise("ask_invalid")
                        ELSE Return(MidPrice(bid, ask))

(***************************************************************************)
(* The weighted-average cost of a position update (new_avg, new_avg_opt).  *)
(***************************************************************************)
new_avg_bug(old_qty, old_avg, delta, price) ==
    IF old_qty + delta # 0
    THEN RDiv(RAdd(RMul(R(old_qty), price), RMul(R(delta), old_avg)), R(old_qty + delta))
    ELSE R(0)

new_avg(old_qty, old_avg, delta, price) ==
    IF old_qty + delta # 0
    THEN RDiv(RAdd(RMul(R(old_qty), old_avg), RMul(R(delta), price)), R(old_qty + delta))
    ELSE R(0)

(***************************************************************************)
(* unrealized P/L as upsert_share / refresh_shares_prices and              *)
(* upsert_option / refresh_options_prices compute it.                      *)
(***************************************************************************)
ContractSize == 100

share_unreal_pl(current_price, avg_cost, shares_held) ==
    RMul(RSub(current_price, avg_cost), R(shares_held))

option_unreal_pl_bug(current_price, avg_cost, contracts_held) ==
    RMul(RSub(current_price, avg_cost), R(contracts_held))

option_unreal_pl(current_price, avg_cost, contracts_held) ==
    RMul(RSub(current_price, avg_cost), R(contracts_held * ContractSize))


(***************************************************************************)
(* State.                                                                  *)
(***************************************************************************)
VARIABLES
    settings,            \* table "settings": rows [id, original_capital]
    portfolio_shares,    \* table "portfolio_shares"
    portfolio_options,   \* table "portfolio_options"
    option_id_seq,       \* the serial that gives an inserted option row its id
    performance,         \* table "performance": rows [date, total_value]
    portfolio_activity,  \* table "portfolio_activity": messages, by ascending id
    today,               \* datetime.date.today(), as a day number
    session_state,       \* st.session_state of each browser session (a dict)
    run,                 \* each session's script run: position, clicked button, rendered buttons
    hist,                \* history of each session's runs (observation only)
    call                 \* a direct call of a pure function: arguments and result

vars == <<settings, portfolio_shares, portfolio_options, option_id_seq, performance,
          portfolio_activity, today, session_state, run, hist, call>>

store == <<settings, portfolio_shares, portfolio_options, option_id_seq, performance,
           portfolio_activity>>

Store ==
    [settings |-> settings, portfolio_shares |-> portfolio_shares,
     portfolio_options |-> portfolio_options, performance |-> performance,
     portfolio_activity |-> portfolio_activity]

NoStore ==
    [settings |-> {}, portfolio_shares |-> {}, portfolio_options |-> {},
     performance |-> {}, portfolio_activity |-> <<>>]

(***************************************************************************)
(* Inputs the model draws from.                                            *)
(***************************************************************************)
Sessions == {1, 2}
Quotes == {R(0), R(1)}
FillPrices == {R(1), R(3)}
Deltas == {-3, -2, -1, 0, 1}
Capitals == {R(0), R(1000)}
ADMIN_PASSWORD == "secret"
Passwords == {ADMIN_PASSWORD, "guess"}
NewTickerTexts == {"aapl"}
OptionSymbols == {"SPY"}
Expirations == {"2025-06-20"}
Strikes == {R(150)}
CallPuts == {"CALL", "PUT"}

(* responses of the chain provider *)
SampleChain ==
    [options |-> ("2025-06-20" :> ("c" :> (15000 :> [b |-> R(1), a |-> <<6, 5>>])))]
FullChain ==
    [options |-> ("2025-06-20" :>
        [c |-> (15000 :> [b |-> R(1), a |-> R(3)]) @@ (15100 :> [b |-> R(0), a |-> R(2)]),
         p |-> (15000 :> [b |-> R(1), a |-> R(1)])])]
(* a chain that lists another expiration only *)
OtherExpirationChain ==
    [options |-> ("2025-07-18" :> [c |-> (15000 :> [b |-> R(1), a |-> R(3)])])]
(* a chain without the 150 call and with no offer on the 150 put *)
ThinChain ==
    [options |-> ("2025-06-20" :>
        [c |-> (15100 :> [b |-> R(0), a |-> R(2)]),
         p |-> (15000 :> [b |-> R(0), a |-> R(0)])])]
Responses ==
    {[status_code |-> 500, json |-> EmptyDict],
     [status_code |-> HTTP_OK, json |-> SampleChain],
     [status_code |-> HTTP_OK, json |-> FullChain],
     [status_code |-> HTTP_OK, json |-> OtherExpirationChain],
     [status_code |-> HTTP_OK, json |-> ThinChain]}


(***************************************************************************)
(* Database CRUD helpers.  A table is the set of its rows; an upsert with  *)
(* on_conflict=<key> replaces the row of that key or adds a new one.       *)
(***************************************************************************)
load_settings == settings
load_shares == portfolio_shares
load_options == portfolio_options
load_performance == performance

save_settings(tbl, original_capital) ==
    {r \in tbl : r.id # 1} \cup {[id |-> 1, original_capital |-> original_capital]}

ShareRow(ticker, shares_held, avg_cost, current_price, unreal_pl) ==
    [ticker |-> ticker, shares_held |-> shares_held, avg_cost |-> avg_cost,
     current_price |-> current_price, unrealized_pl |-> unreal_pl]

UpdateOnTicker(tbl, row) == {IF r.ticker = row.ticker THEN row ELSE r : r \in tbl}

UpsertOnTicker(tbl, row) == {r \in tbl : r.ticker # row.ticker} \cup {row}

upsert_share(tbl, ticker, shares_held, avg_cost, current_price) ==
    UpsertOnTicker(tbl, ShareRow(ticker, shares_held, avg_cost, current_price,
                                 share_unreal_pl(current_price, avg_cost, shares_held)))

delete_share(tbl, ticker) == {r \in tbl : r.ticker # ticker}

OptionRow(id, symbol, call_put, expiration, strike, contracts_held, avg_cost, current_price, unreal_pl) ==
    [id |-> id, symbol |-> symbol, call_put |-> call_put, expiration |-> expiration,
     strike |-> strike, contracts_held |-> contracts_held, avg_cost |-> avg_cost,
     current_price |-> current_price, unrealized_pl |-> unreal_pl]

(* .update(data_dict).eq("id", opt_id): rewrites the rows of that id, adds none *)
UpdateOnId(tbl, row) == {IF r.id = row.id THEN row ELSE r : r \in tbl}

(* opt_id = 0 stands for None: insert with the next serial id *)
upsert_option(tbl, seq, opt_id, symbol, call_put, expiration, strike, contracts_held, avg_cost, current_price) ==
    LET unreal_pl == option_unreal_pl(current_price, avg_cost, contracts_held)
    IN  IF opt_id = 0
        THEN tbl \cup {OptionRow(seq, symbol, call_put, expiration, strike,
                                 contracts_held, avg_cost, current_price, unreal_pl)}
        ELSE UpdateOnId(tbl, OptionRow(opt_id, symbol, call_put, expiration, strike,
                                       contracts_held, avg_cost, current_price, unreal_pl))

delete_option(tbl, row_id) == {r \in tbl : r.id # row_id}

upsert_performance_bug(tbl, date_str, total_value) ==
    tbl \cup {[date |-> date_str, total_value |-> total_value]}

upsert_performance(tbl, date_str, total_value) ==
    {r \in tbl : r.date # date_str} \cup {[date |-> date_str, total_value |-> total_value]}

log_activity(tbl, message) == Append(tbl, message)

(***************************************************************************)
(* The activity messages, as the fields the text is formatted from.        *)
(***************************************************************************)
log_shares_activity(tbl, ticker, shares_added, price) ==
    log_activity(tbl,
        [action |-> IF shares_added > 0 THEN "BOUGHT" ELSE "SOLD",
         quantity |-> shares_added,
         item |-> <<ticker>>,
         price |-> price,
         total |-> RMul(price, R(Abs(shares_added)))])

log_options_activity(tbl, symbol, call_put, expiration, strike, contracts_added, price) ==
    log_activity(tbl,
        [action |-> IF contracts_added > 0 THEN "BOUGHT" ELSE "SOLD",
         quantity |-> contracts_added,
         item |-> <<symbol, Format2f(strike), call_put, expiration>>,
         price |-> price,
         total |-> RMul(price, R(Abs(contracts_added) * ContractSize))])

(***************************************************************************)
(* Portfolio totals of record_daily_performance.                           *)
(***************************************************************************)
RECURSIVE SumShares(_, _)
SumShares(rows, col) ==
    IF rows = {} THEN R(0)
    ELSE LET r == CHOOSE x \in rows : TRUE
         IN  RAdd(RMul(R(r.shares_held), r[col]), SumShares(rows \ {r}, col))

RECURSIVE SumOptions(_, _)
SumOptions(rows, col) ==
    IF rows = {} THEN R(0)
    ELSE LET r == CHOOSE x \in rows : TRUE
         IN  RAdd(RMul(R(r.contracts_held * ContractSize), r[col]),
                  SumOptions(rows \ {r}, col))

original_cap_def(settings_df) ==
    IF settings_df # {} THEN (CHOOSE r \in settings_df : TRUE).original_capital ELSE R(0)

total_val(shares_df, opt_df, settings_df) ==
    LET total_shares_val == SumShares(shares_df, "current_price")
        total_opts_val == SumOptions(opt_df, "current_price")
        spent_shares_val == SumShares(shares_df, "avg_cost")
        spent_opts_val == SumOptions(opt_df, "avg_cost")
        buying_power == RSub(RSub(original_cap_def(settings_df), spent_shares_val),
                             spent_opts_val)
    IN  RAdd(RAdd(total_shares_val, total_opts_val), buying_power)

record_daily_performance ==
    upsert_performance(performance, today,
                       total_val(load_shares, load_options, load_settings))


(***************************************************************************)
(* Sessions and script runs.                                               *)
(*                                                                         *)
(* A click (or any other widget interaction, or loading the page) starts   *)
(* a run of the script: main() up to refresh_all_once, the refresh when    *)
(* the session has not done it, then show_portfolio_data with the handler  *)
(* of the clicked button.  st.rerun() ends the run and starts a new one    *)
(* with no button clicked; st.stop() and an uncaught exception end it.     *)
(***************************************************************************)
SetKey(d, k, v) == (k :> v) @@ d

IdleRun ==
    [pc |-> "idle", clicked |-> "", as_admin |-> FALSE, step |-> 1, loaded |-> FALSE,
     todo |-> {}, buttons |-> {}]

NoHist ==
    [runs |-> 0, before |-> NoStore, form |-> "", key |-> <<>>, old |-> 0, delta |-> 0,
     outcome |-> "", fetch |-> <<>>,
     written_shares |-> {}, written_options |-> {}, loaded_options |-> {},
     failed_options |-> {}, recorded |-> FALSE]

(***************************************************************************)
(* The store when the session opens: a portfolio in use, as an earlier     *)
(* admin session (three buys, each logged) and the refreshes of earlier    *)
(* sessions, yesterday and today, left it.  Every row is one the program   *)
(* writes.  The day does not change while the session lasts.               *)
(***************************************************************************)
InitShares ==
    {ShareRow("AAPL", 2, R(1), R(1), R(0))}

InitOptions ==
    {OptionRow(1, "SPY", "CALL", "2025-06-20", R(150), 1, R(1), <<11, 10>>, R(10)),
     OptionRow(2, "SPY", "PUT", "2025-06-20", R(150), 1, R(1), R(1), R(0))}

InitActivity ==
    log_options_activity(
        log_options_activity(
            log_shares_activity(<<>>, "AAPL", 2, R(1)),
            "SPY", "CALL", "2025-06-20", R(150), 1, R(1)),
        "SPY", "PUT", "2025-06-20", R(150), 1, R(1))

Today == 1
Yesterday == Today - 1

InitPerformance ==
    {[date |-> Yesterday, total_value |-> R(0)], [date |-> Today, total_value |-> R(10)]}

NoCall == [fn |-> "", args |-> <<>>, returned |-> FALSE, ret |-> <<>>]

InitStore ==
    /\ settings \in {{}, save_settings({}, R(1000))}
    /\ portfolio_shares = InitShares
    /\ portfolio_options = InitOptions
    /\ option_id_seq = 3
    /\ performance = InitPerformance
    /\ portfolio_activity = InitActivity
    /\ today = Today

InitSessions ==
    /\ session_state = [s \in Sessions |-> EmptyDict]
    /\ run = [s \in Sessions |-> IdleRun]
    /\ hist = [s \in Sessions |-> NoHist]

Init == InitStore /\ InitSessions /\ call = NoCall

(* the buttons a run has rendered when it gets through show_portfolio_data *)
AdminButtons(shares_df, opt_df) ==
    {"Logout", "Save Original Capital", "Submit (Shares)", "Submit (Options)"}
    \cup (IF shares_df # {} THEN {"Confirm Delete (Shares)"} ELSE {})
    \cup (IF opt_df # {} THEN {"Confirm Delete (Option)"} ELSE {})

PageButtons(is_admin, shares_df, opt_df) ==
    IF is_admin THEN AdminButtons(shares_df, opt_df) ELSE {"Login"}

(* the buttons rendered before the script reaches the given place *)
ButtonsBeforeRefresh(is_admin) == IF is_admin THEN {"Logout"} ELSE {"Login"}
ButtonsUpToSharesSubmit == {"Logout", "Save Original Capital", "Submit (Shares)"}
ButtonsUpToOptionsSubmit(shares_df) ==
    ButtonsUpToSharesSubmit \cup {"Submit (Options)"}
    \cup (IF shares_df # {} THEN {"Confirm Delete (Shares)"} ELSE {})

LogButtons == {"Submit (Shares)", "Submit (Options)"}

(* the user clicks a rendered button; "" is any interaction that clicks none *)
Click(s) ==
    /\ run[s].pc = "idle"
    /\ \E b \in run[s].buttons \cup {""} :
        /\ b \in LogButtons => Len(portfolio_activity) < MaxLog
        /\ run' = [run EXCEPT ![s] = [@ EXCEPT !.pc = "main", !.clicked = b]]
        /\ hist' = [hist EXCEPT ![s] =
              [@ EXCEPT !.before = IF b \in LogButtons THEN Store ELSE NoStore,
                        !.form = "", !.key = <<>>, !.old = 0, !.delta = 0,
                        !.outcome = "", !.fetch = <<>>]]
    /\ UNCHANGED <<store, today, session_state, call>>

(* the order of the calls in refresh_all_once *)
refresh_body_bug ==
    <<"record_daily_performance", "refresh_shares_prices", "refresh_options_prices">>

refresh_body ==
    <<"refresh_shares_prices", "refresh_options_prices", "record_daily_performance">>

StartRerun(r) == [r EXCEPT !.pc = "main", !.clicked = ""]

(* main() up to the body of refresh_all_once *)
Main(s) ==
    /\ run[s].pc = "main"
    /\ LET ss1 == IF "is_admin" \notin DOMAIN session_state[s]
                  THEN SetKey(session_state[s], "is_admin", FALSE)
                  ELSE session_state[s]
           ss2 == IF "did_refresh" \notin DOMAIN ss1
                  THEN SetKey(ss1, "did_refresh", FALSE)
                  ELSE ss1
           RefreshAllOnce(admin) ==
               /\ session_state' = [session_state EXCEPT ![s] = ss2]
               /\ run' = [run EXCEPT ![s] =
                     [@ EXCEPT !.pc = IF ss2["did_refresh"] THEN "show" ELSE "refresh",
                               !.as_admin = admin, !.step = 1, !.loaded = FALSE,
                               !.todo = {}]]
           Rerun(admin) ==
               /\ session_state' = [session_state EXCEPT ![s] = SetKey(ss1, "is_admin", admin)]
               /\ run' = [run EXCEPT ![s] = StartRerun(@)]
       IN  IF ~ss1["is_admin"]
           THEN IF run[s].clicked = "Login"
                THEN \E input_password \in Passwords :
                        IF input_password = ADMIN_PASSWORD
                        THEN Rerun(TRUE)
                        ELSE RefreshAllOnce(FALSE)
                ELSE RefreshAllOnce(FALSE)
           ELSE IF run[s].clicked = "Logout"
                THEN Rerun(FALSE)
                ELSE RefreshAllOnce(TRUE)
    /\ hist' = [hist EXCEPT ![s] =
          LET h == IF run[s].clicked = ""
                   THEN [@ EXCEPT !.before = NoStore, !.form = "", !.key = <<>>,
                                  !.old = 0, !.delta = 0, !.outcome = "",
                                  !.fetch = <<>>]
                   ELSE @
          IN  IF run'[s].pc = "refresh"
              THEN [h EXCEPT !.written_shares = {}, !.written_options = {},
                             !.loaded_options = {}, !.failed_options = {},
                             !.recorded = FALSE]
              ELSE h]
    /\ UNCHANGED <<store, today, call>>

(* one call of refresh_all_once's body returned *)
Advance(s, r) ==
    IF r.step = Len(refresh_body)
    THEN /\ run' = [run EXCEPT ![s] = [r EXCEPT !.pc = "show", !.step = 1,
                                                !.loaded = FALSE, !.todo = {}]]
         /\ session_state' = [session_state EXCEPT ![s] = SetKey(@, "did_refresh", TRUE)]
    ELSE /\ run' = [run EXCEPT ![s] = [r EXCEPT !.step = @ + 1, !.loaded = FALSE,
                                                !.todo = {}]]
         /\ UNCHANGED session_state

InRefresh(s, fn) == run[s].pc = "refresh" /\ refresh_body[run[s].step] = fn

Bump(n) == IF n < MaxRuns THEN n + 1 ELSE n

(* refresh_shares_prices: load_shares and the early return on an empty table *)
LoadShares(s) ==
    /\ InRefresh(s, "refresh_shares_prices")
    /\ ~run[s].loaded
    /\ LET shares_df == load_shares
       IN  IF shares_df = {}
           THEN Advance(s, run[s])
           ELSE /\ run' = [run EXCEPT ![s] = [@ EXCEPT !.loaded = TRUE, !.todo = shares_df]]
                /\ UNCHANGED session_state
    /\ hist' = [hist EXCEPT ![s] = [@ EXCEPT !.runs = Bump(@)]]
    /\ UNCHANGED <<store, today, call>>

(* refresh_shares_prices: one row of the loop *)
RefreshShareRow(s) ==
    /\ InRefresh(s, "refresh_shares_prices")
    /\ run[s].loaded
    /\ \E row \in run[s].todo, current_px \in Quotes :
        LET unreal_pl == share_unreal_pl(current_px, row.avg_cost, row.shares_held)
            rest == run[s].todo \ {row}
        IN  /\ portfolio_shares' = UpsertOnTicker(portfolio_shares,
                    ShareRow(row.ticker, row.shares_held, row.avg_cost, current_px, unreal_pl))
            /\ hist' = [hist EXCEPT ![s] =
                    [@ EXCEPT !.written_shares = @ \cup {row.ticker}]]
            /\ IF rest = {}
               THEN Advance(s, run[s])
               ELSE /\ run' = [run EXCEPT ![s] = [@ EXCEPT !.todo = rest]]
                    /\ UNCHANGED session_state
    /\ UNCHANGED <<settings, portfolio_options, option_id_seq, performance,
                   portfolio_activity, today, call>>

(* refresh_options_prices: load_options and the early return on an empty table *)
LoadOptions(s) ==
    /\ InRefresh(s, "refresh_options_prices")
    /\ ~run[s].loaded
    /\ LET opt_df == load_options
       IN  /\ IF opt_df = {}
              THEN Advance(s, run[s])
              ELSE /\ run' = [run EXCEPT ![s] = [@ EXCEPT !.loaded = TRUE, !.todo = opt_df]]
                   /\ UNCHANGED session_state
           /\ hist' = [hist EXCEPT ![s] =
                    [@ EXCEPT !.loaded_options = {r.id : r \in opt_df}]]
    /\ UNCHANGED <<store, today, call>>

(* refresh_options_prices: one row of the loop; a ValueError of              *)
(* fetch_option_price is caught nowhere and ends the script run              *)
RefreshOptionRow(s) ==
    /\ InRefresh(s, "refresh_options_prices")
    /\ run[s].loaded
    /\ \E row \in run[s].todo, response \in Responses :
        LET fetched == fetch_option_price(response, row.expiration, row.strike, row.call_put)
            current_px == fetched.val
            unreal_pl == option_unreal_pl(current_px, row.avg_cost, row.contracts_held)
            rest == run[s].todo \ {row}
        IN  IF ~fetched.ok
            THEN /\ run' = [run EXCEPT ![s] =
                        [IdleRun EXCEPT !.buttons = ButtonsBeforeRefresh(run[s].as_admin),
                                        !.as_admin = run[s].as_admin]]
                 /\ hist' = [hist EXCEPT ![s] =
                        [@ EXCEPT !.failed_options = @ \cup {row.id},
                                  !.outcome = "refresh_raised"]]
                 /\ UNCHANGED <<portfolio_options, session_state>>
            ELSE /\ portfolio_options' = UpdateOnId(portfolio_options,
                        OptionRow(row.id, row.symbol, row.call_put, row.expiration,
                                  row.strike, row.contracts_held, row.avg_cost,
                                  current_px, unreal_pl))
                 /\ hist' = [hist EXCEPT ![s] =
                        [@ EXCEPT !.written_options = @ \cup {row.id}]]
                 /\ IF rest = {}
                    THEN Advance(s, run[s])
                    ELSE /\ run' = [run EXCEPT ![s] = [@ EXCEPT !.todo = rest]]
                         /\ UNCHANGED session_state
    /\ UNCHANGED <<settings, portfolio_shares, option_id_seq, performance,
                   portfolio_activity, today, call>>

(* record_daily_performance *)
RecordPerformance(s) ==
    /\ InRefresh(s, "record_daily_performance")
    /\ performance' = record_daily_performance
    /\ hist' = [hist EXCEPT ![s] = [@ EXCEPT !.recorded = TRUE]]
    /\ Advance(s, run[s])
    /\ UNCHANGED <<settings, portfolio_shares, portfolio_options, option_id_seq,
                   portfolio_activity, today, call>>


(***************************************************************************)
(* show_portfolio_data: the run renders the page and runs the handler of   *)
(* the clicked button.                                                     *)
(***************************************************************************)
Rendered(s, buttons) == [IdleRun EXCEPT !.buttons = buttons, !.as_admin = run[s].as_admin]

Handler(s, b) == run[s].pc = "show" /\ run[s].as_admin /\ run[s].clicked = b

Outcome(s, form, key, old, delta, outcome) ==
    hist' = [hist EXCEPT ![s] = [@ EXCEPT !.form = form, !.key = <<key>>, !.old = old,
                                          !.delta = delta, !.outcome = outcome]]

(* the outcome of a handler that called fetch_option_price on the given arguments *)
OutcomeOfFetch(s, form, key, old, delta, outcome, fetch_args) ==
    hist' = [hist EXCEPT ![s] = [@ EXCEPT !.form = form, !.key = <<key>>, !.old = old,
                                          !.delta = delta, !.outcome = outcome,
                                          !.fetch = fetch_args]]

(* no handler runs: the page is rendered to its end *)
ShowPage(s) ==
    /\ run[s].pc = "show"
    /\ ~run[s].as_admin \/ run[s].clicked \in {"", "Login", "Logout"}
    /\ run' = [run EXCEPT ![s] =
          Rendered(s, PageButtons(run[s].as_admin, load_shares, load_options))]
    /\ UNCHANGED <<store, today, session_state, hist, call>>

(* "Save Original Capital": save_settings, which ends in st.rerun() *)
SaveOriginalCapital(s) ==
    /\ Handler(s, "Save Original Capital")
    /\ \E orig_capital \in Capitals :
        settings' = save_settings(settings, orig_capital)
    /\ run' = [run EXCEPT ![s] = StartRerun(@)]
    /\ UNCHANGED <<portfolio_shares, portfolio_options, option_id_seq, performance,
                   portfolio_activity, today, session_state, hist, call>>

(* the if / elif / else on the resulting quantity *)
shares_branch_keeps_zero(total_shares) ==
    IF total_shares < 0 THEN "stop" ELSE "update"

shares_branch_off_by_one(total_shares) ==
    IF total_shares < -1 THEN "stop"
    ELSE IF total_shares = 0 THEN "close"
    ELSE "update"

shares_branch(total_shares) ==
    IF total_shares < 0 THEN "stop"
    ELSE IF total_shares = 0 THEN "close"
    ELSE "update"

contracts_branch(total_contracts) ==
    IF total_contracts < 0 THEN "stop"
    ELSE IF total_contracts = 0 THEN "close"
    ELSE "update"

(* if shares_to_add != 0 / if contracts_to_add != 0 *)
logs_change_always(delta) == TRUE

logs_change(delta) == delta # 0

(* "Submit (Shares)" *)
SubmitShares(s) ==
    /\ Handler(s, "Submit (Shares)")
    /\ LET shares_df == load_shares
           tickers_list == {r.ticker : r \in shares_df}
       IN  \E sel_share \in tickers_list \cup {"(New)"}, new_ticker \in NewTickerTexts,
              shares_to_add \in Deltas, purchase_price \in FillPrices, current_px \in Quotes :
           LET ticker_val == IF sel_share = "(New)" THEN Upper(new_ticker) ELSE sel_share
               existing_row == {r \in shares_df : r.ticker = ticker_val}
               known == sel_share # "(New)" /\ existing_row # {}
               old_shares == IF known THEN (CHOOSE r \in existing_row : TRUE).shares_held
                             ELSE 0
               old_avg == IF known THEN (CHOOSE r \in existing_row : TRUE).avg_cost
                          ELSE R(0)
               total_shares == old_shares + shares_to_add
               branch == shares_branch(total_shares)
               logged == IF logs_change(shares_to_add)
                         THEN log_shares_activity(portfolio_activity, ticker_val,
                                                  shares_to_add, purchase_price)
                         ELSE portfolio_activity
           IN  /\ sel_share = "(New)" \/ new_ticker = CHOOSE t \in NewTickerTexts : TRUE
               /\ Outcome(s, "shares", ticker_val, old_shares, shares_to_add, branch)
               /\ CASE branch = "stop" ->
                        /\ run' = [run EXCEPT ![s] = Rendered(s, ButtonsUpToSharesSubmit)]
                        /\ UNCHANGED <<portfolio_shares, portfolio_activity>>
                    [] branch = "close" ->
                        /\ portfolio_shares' = delete_share(portfolio_shares, ticker_val)
                        /\ portfolio_activity' = logged
                        /\ run' = [run EXCEPT ![s] = StartRerun(@)]
                    [] branch = "update" ->
                        /\ portfolio_shares' =
                              upsert_share(portfolio_shares, ticker_val, total_shares,
                                           new_avg(old_shares, old_avg, shares_to_add,
                                                   purchase_price),
                                           current_px)
                        /\ portfolio_activity' = logged
                        /\ run' = [run EXCEPT ![s] = StartRerun(@)]
    /\ UNCHANGED <<settings, portfolio_options, option_id_seq, performance, today,
                   session_state, call>>

(* "Confirm Delete (Shares)" *)
ConfirmDeleteShares(s) ==
    /\ Handler(s, "Confirm Delete (Shares)")
    /\ LET tickers_list == {r.ticker : r \in load_shares}
       IN  IF tickers_list = {}
           THEN /\ run' = [run EXCEPT ![s] =
                      Rendered(s, PageButtons(TRUE, load_shares, load_options))]
                /\ UNCHANGED portfolio_shares
           ELSE \E del_ticker_sh \in tickers_list :
                /\ portfolio_shares' = delete_share(portfolio_shares, del_ticker_sh)
                /\ run' = [run EXCEPT ![s] = StartRerun(@)]
    /\ UNCHANGED <<settings, portfolio_options, option_id_seq, performance,
                   portfolio_activity, today, session_state, hist, call>>

(* the ValueError of fetch_option_price is caught nowhere in the handler: *)
(* it ends the script run at the call                                     *)
fetch_raised_caught(fetched) == FALSE

fetch_raised(fetched) == ~fetched.ok

(* "Submit (Options)"; chosen_opt = 0 stands for "(New)" *)
SubmitOptions(s) ==
    /\ Handler(s, "Submit (Options)")
    /\ LET opt_df == load_options
       IN  \E chosen_opt \in {r.id : r \in opt_df} \cup {0},
              symbol_new \in OptionSymbols, call_put_new \in CallPuts,
              exp_new \in Expirations, strike_new \in Strikes,
              contracts_to_add \in Deltas, purchase_price_opt \in FillPrices,
              response \in Responses :
           LET is_new == chosen_opt = 0
               row_data == CHOOSE r \in opt_df : r.id = chosen_opt
               opt_id == chosen_opt
               symbol_input == IF is_new THEN symbol_new ELSE row_data.symbol
               call_put_input == IF is_new THEN call_put_new ELSE row_data.call_put
               exp_str == IF is_new THEN exp_new ELSE row_data.expiration
               strike_in == IF is_new THEN strike_new ELSE row_data.strike
               old_contracts == IF is_new THEN 0 ELSE row_data.contracts_held
               old_avg == IF is_new THEN R(0) ELSE row_data.avg_cost
               total_contracts == old_contracts + contracts_to_add
               branch == contracts_branch(total_contracts)
               logged == IF logs_change(contracts_to_add)
                         THEN log_options_activity(portfolio_activity, symbol_input,
                                  call_put_input, exp_str, strike_in, contracts_to_add,
                                  purchase_price_opt)
                         ELSE portfolio_activity
               fetched == fetch_option_price(response, exp_str, strike_in, call_put_input)
               fetch_args == <<response, exp_str, strike_in, call_put_input>>
               Default(x, S) == x = CHOOSE y \in S : TRUE
           IN  /\ ~is_new => /\ Default(symbol_new, OptionSymbols)
                             /\ Default(call_put_new, CallPuts)
                             /\ Default(exp_new, Expirations)
                             /\ Default(strike_new, Strikes)
               /\ CASE branch = "stop" ->
                        /\ Outcome(s, "options", opt_id, old_contracts, contracts_to_add, "stop")
                        /\ run' = [run EXCEPT ![s] =
                              Rendered(s, ButtonsUpToOptionsSubmit(load_shares))]
                        /\ UNCHANGED <<portfolio_options, option_id_seq, portfolio_activity>>
                    [] branch = "close" /\ is_new ->
                        /\ Outcome(s, "options", opt_id, old_contracts, contracts_to_add, "nothing")
                        /\ run' = [run EXCEPT ![s] =
                              Rendered(s, PageButtons(TRUE, load_shares, load_options))]
                        /\ UNCHANGED <<portfolio_options, option_id_seq, portfolio_activity>>
                    [] branch = "close" /\ ~is_new ->
                        /\ Outcome(s, "options", opt_id, old_contracts, contracts_to_add, "close")
                        /\ portfolio_options' = delete_option(portfolio_options, opt_id)
                        /\ portfolio_activity' = logged
                        /\ run' = [run EXCEPT ![s] = StartRerun(@)]
                        /\ UNCHANGED option_id_seq
                    [] branch = "update" /\ fetch_raised(fetched) ->
                        /\ OutcomeOfFetch(s, "options", opt_id, old_contracts,
                                          contracts_to_add, "raised", fetch_args)
                        /\ run' = [run EXCEPT ![s] =
                              Rendered(s, ButtonsUpToOptionsSubmit(load_shares))]
                        /\ UNCHANGED <<portfolio_options, option_id_seq, portfolio_activity>>
                    [] branch = "update" /\ ~fetch_raised(fetched) ->
                        /\ OutcomeOfFetch(s, "options", opt_id, old_contracts,
                                          contracts_to_add, "update", fetch_args)
                        /\ portfolio_options' =
                              upsert_option(portfolio_options, option_id_seq, opt_id,
                                  symbol_input, call_put_input, exp_str, strike_in,
                                  total_contracts,
                                  new_avg(old_contracts, old_avg, contracts_to_add,
                                          purchase_price_opt),
                                  fetched.val)
                        /\ option_id_seq' = IF is_new THEN option_id_seq + 1
                                            ELSE option_id_seq
                        /\ portfolio_activity' = logged
                        /\ run' = [run EXCEPT ![s] = StartRerun(@)]
    /\ UNCHANGED <<settings, portfolio_shares, performance, today, session_state, call>>

(* "Confirm Delete (Option)" *)
ConfirmDeleteOption(s) ==
    /\ Handler(s, "Confirm Delete (Option)")
    /\ LET ids == {r.id : r \in load_options}
       IN  IF ids = {}
           THEN /\ run' = [run EXCEPT ![s] =
                      Rendered(s, PageButtons(TRUE, load_shares, load_options))]
                /\ UNCHANGED portfolio_options
           ELSE \E del_id \in ids :
                /\ portfolio_options' = delete_option(portfolio_options, del_id)
                /\ run' = [run EXCEPT ![s] = StartRerun(@)]
    /\ UNCHANGED <<settings, portfolio_shares, option_id_seq, performance,
                   portfolio_activity, today, session_state, hist, call>>

Step(s) ==
    \/ Click(s)
    \/ Main(s)
    \/ LoadShares(s)
    \/ RefreshShareRow(s)
    \/ LoadOptions(s)
    \/ RefreshOptionRow(s)
    \/ RecordPerformance(s)
    \/ ShowPage(s)
    \/ SaveOriginalCapital(s)
    \/ SubmitShares(s)
    \/ ConfirmDeleteShares(s)
    \/ SubmitOptions(s)
    \/ ConfirmDeleteOption(s)

OneSession == {1}

Next == \E s \in OneSession : Step(s)

Spec == Init /\ [][Next]_vars


(***************************************************************************)
(* Two sessions on the same store.  Streamlit runs each session's script   *)
(* in a thread of its own, so the store calls of two runs interleave.      *)
(* Session 1 is an admin session that has completed its refresh and shows  *)
(* the page; session 2 opens.  The store holds the equity position and no  *)
(* option position.                                                        *)
(***************************************************************************)
Editor == 1
Visitor == 2

InitRace ==
    /\ settings \in {{}, save_settings({}, R(1000))}
    /\ portfolio_shares = InitShares
    /\ portfolio_options = {}
    /\ option_id_seq = 3
    /\ performance = InitPerformance
    /\ portfolio_activity = InitActivity
    /\ today = Today
    /\ session_state = [s \in Sessions |->
          IF s = Editor
          THEN SetKey(SetKey(EmptyDict, "is_admin", TRUE), "did_refresh", TRUE)
          ELSE EmptyDict]
    /\ run = [s \in Sessions |->
          IF s = Editor
          THEN [IdleRun EXCEPT !.buttons = AdminButtons(InitShares, {}),
                               !.as_admin = TRUE]
          ELSE IdleRun]
    /\ hist = [s \in Sessions |-> NoHist]
    /\ call = NoCall

(* the editor works on the shares form *)
EditorStep ==
    \/ Click(Editor)
    \/ Main(Editor)
    \/ ShowPage(Editor)
    \/ SubmitShares(Editor)

(* the visitor's page loads, with the refresh of the session *)
VisitorStep ==
    \/ Click(Visitor)
    \/ Main(Visitor)
    \/ LoadShares(Visitor)
    \/ RefreshShareRow(Visitor)
    \/ LoadOptions(Visitor)
    \/ RecordPerformance(Visitor)
    \/ ShowPage(Visitor)

NextRace == EditorStep \/ VisitorStep

SpecRace == InitRace /\ [][NextRace]_vars


(***************************************************************************)
(* Direct calls of the pure functions, on arguments drawn from bounded     *)
(* sets.                                                                   *)
(***************************************************************************)
Chain(side_dicts) == [options |-> ("2025-06-20" :> side_dicts)]

FetchResponses ==
    Responses \cup
    {[status_code |-> HTTP_OK, json |-> j] : j \in
        {EmptyDict,
         [error |-> "rate limited"],
         [options |-> EmptyDict],
         Chain(EmptyDict),
         Chain([c |-> EmptyDict, p |-> (15000 :> [b |-> R(1), a |-> R(2)])]),
         Chain([c |-> (15000 :> [b |-> R(1), a |-> R(0)]),
                p |-> (15000 :> [b |-> R(1), a |-> R(-1)])]),
         Chain([c |-> (15000 :> [b |-> R(1)]), p |-> (15000 :> [a |-> R(2)])])}}

FetchExpirations == {"2025-06-20", "2025-07-18"}
FetchStrikes == {R(150), R(151), <<37501, 250>>, <<37749, 250>>, <<1201, 8>>}
FetchCallPuts == {"CALL", "call", "PUT", "put"}

InitFetch ==
    /\ InitStore
    /\ InitSessions
    /\ call \in {[fn |-> "fetch_option_price", args |-> <<response, expiration, strike, cp>>,
                  returned |-> FALSE, ret |-> <<>>] :
                    response \in FetchResponses, expiration \in FetchExpirations,
                    strike \in FetchStrikes, cp \in FetchCallPuts}

CallFetchOptionPrice ==
    /\ call.fn = "fetch_option_price"
    /\ ~call.returned
    /\ call' = [call EXCEPT !.returned = TRUE,
                            !.ret = fetch_option_price(call.args[1], call.args[2],
                                                       call.args[3], call.args[4])]
    /\ UNCHANGED <<store, today, session_state, run, hist>>

SpecFetch == InitFetch /\ [][CallFetchOptionPrice]_vars

AvgValues == {R(-1), R(0), <<1, 2>>, R(1), R(2), R(3)}

InitAvg ==
    /\ InitStore
    /\ InitSessions
    /\ call \in {[fn |-> "new_avg", args |-> <<old_qty, old_avg, delta, price>>,
                  returned |-> FALSE, ret |-> <<>>] :
                    old_qty \in 0 .. MaxQty, old_avg \in AvgValues,
                    delta \in (0 - MaxQty) .. MaxQty, price \in AvgValues}

CallNewAvg ==
    /\ call.fn = "new_avg"
    /\ ~call.returned
    /\ call' = [call EXCEPT !.returned = TRUE,
                            !.ret = new_avg(call.args[1], call.args[2], call.args[3],
                                            call.args[4])]
    /\ UNCHANGED <<store, today, session_state, run, hist>>

SpecAvg == InitAvg /\ [][CallNewAvg]_vars

(***************************************************************************)
(* C7: fetch_option_price on a chain snapshot fails with NotFound when the *)
(* expiration key, the side ('c' for CALL, 'p' otherwise) or the 2-decimal *)
(* strike key is absent, fails with InvalidQuote when ask <= 0, and in     *)
(* every other case returns (bid + ask) / 2; on the sample snapshot the    *)
(* CALL 150.0 lookup returns 1.1 and the strike 151.0 lookup fails with    *)
(* NotFound.                                                               *)
(***************************************************************************)
NotFound == {"no_expiration", "no_side", "no_strike"}
InvalidQuote == {"ask_invalid"}

IsSnapshot(response) ==
    response.status_code = HTTP_OK /\ "options" \in DOMAIN response.json

C7_FetchOptionPrice ==
    (call.fn = "fetch_option_price" /\ call.returned /\ IsSnapshot(call.args[1])) =>
        LET opts == call.args[1].json["options"]
            expiration == call.args[2]
            strike == call.args[3]
            side == IF call.args[4] \in {"CALL", "call"} THEN "c" ELSE "p"
            key == Format2f(strike)
            absent == \/ expiration \notin DOMAIN opts
                      \/ side \notin DOMAIN opts[expiration]
                      \/ key \notin DOMAIN opts[expiration][side]
            quote == opts[expiration][side][key]
            bid == IF "b" \in DOMAIN quote THEN quote["b"] ELSE R(0)
            ask == IF "a" \in DOMAIN quote THEN quote["a"] ELSE R(0)
        IN  /\ absent => ~call.ret.ok /\ call.ret.err \in NotFound
            /\ ~absent /\ ask[1] <= 0 => ~call.ret.ok /\ call.ret.err \in InvalidQuote
            /\ ~absent /\ ask[1] > 0 =>
                  /\ call.ret.ok
                  /\ RMul(R(2), call.ret.val) = RAdd(bid, ask)
            /\ (call.args[1].json = SampleChain /\ expiration = "2025-06-20"
                  /\ call.args[4] = "CALL") =>
                  /\ strike = R(150) => call.ret.ok /\ call.ret.val = <<11, 10>>
                  /\ strike = R(151) => ~call.ret.ok /\ call.ret.err \in NotFound

C7_Witness ==
    /\ call.fn = "fetch_option_price"
    /\ call.returned
    /\ call.args = <<[status_code |-> HTTP_OK, json |-> SampleChain], "2025-06-20",
                     R(150), "CALL">>
    /\ call.ret = Return(<<11, 10>>)

Submitted(s, form) == hist[s].form = form
ResultingQuantity(s) == hist[s].old + hist[s].delta

(***************************************************************************)
(* C1: no stored equity position has shares_held <= 0 and no stored option *)
(* position has contracts_held <= 0; an accepted submit whose resulting    *)
(* quantity old + delta is exactly zero leaves no row for that position.   *)
(***************************************************************************)
C1_NoZeroPosition ==
    /\ \A r \in portfolio_shares : r.shares_held > 0
    /\ \A r \in portfolio_options : r.contracts_held > 0
    /\ \A s \in Sessions :
        /\ (Submitted(s, "shares") /\ ResultingQuantity(s) = 0) =>
              \A r \in portfolio_shares : r.ticker # hist[s].key[1]
        /\ (Submitted(s, "options") /\ ResultingQuantity(s) = 0) =>
              \A r \in portfolio_options : r.id # hist[s].key[1]

C1_Witness ==
    /\ Submitted(1, "shares")
    /\ hist[1].key = <<"AAPL">>
    /\ hist[1].old = 2
    /\ hist[1].delta = -2
    /\ portfolio_shares = {}
    /\ hist[1].before.portfolio_shares # {}

(***************************************************************************)
(* C2: a submit whose delta would make old quantity + delta negative is    *)
(* rejected before any mutation: the settings, equity, option, performance *)
(* and activity-log collections are as they were before the submit.        *)
(***************************************************************************)
C2_RejectedBeforeMutation ==
    \A s \in Sessions :
        (hist[s].form # "" /\ ResultingQuantity(s) < 0) =>
            /\ Store = hist[s].before
            /\ run[s].pc = "idle"

C2_Witness ==
    /\ Submitted(1, "options")
    /\ hist[1].key = <<1>>
    /\ hist[1].old = 1
    /\ hist[1].delta = -2
    /\ hist[1].outcome = "stop"

(***************************************************************************)
(* C3: within one session the refresh routine runs at most once: the       *)
(* re-fetch and write-back of the stored equity positions is executed at   *)
(* most one time, also over reruns that follow a refresh that raised.      *)
(***************************************************************************)
C3_RefreshAtMostOnce == \A s \in Sessions : hist[s].runs <= 1

(***************************************************************************)
(* C4: when fetch_option_price fails for one option row during the         *)
(* refresh, every other stored option row is still rewritten and the daily *)
(* snapshot is still recorded.                                             *)
(***************************************************************************)
C4_PartialFailureTolerance ==
    \A s \in Sessions :
        hist[s].outcome = "refresh_raised" =>
            /\ (hist[s].loaded_options \ hist[s].failed_options) \subseteq
                    hist[s].written_options
            /\ hist[s].recorded

(***************************************************************************)
(* C5: the performance collection holds at most one row per date: a        *)
(* snapshot written for a date that has a row replaces it (the row holds   *)
(* the total_value written last) and the rows of other dates are unchanged.*)
(***************************************************************************)
OneRowPerDate(tbl) == \A r1, r2 \in tbl : r1.date = r2.date => r1 = r2

C5_OneRowPerDate ==
    /\ OneRowPerDate(performance)
    /\ [][/\ OneRowPerDate(performance')
          /\ performance' # performance =>
                /\ {r \in performance' : r.date # today} =
                        {r \in performance : r.date # today}
                /\ \E r \in performance' :
                        /\ r.date = today
                        /\ r.total_value =
                              total_val(portfolio_shares, portfolio_options, settings)]_vars

C5_Witness ==
    /\ hist[1].recorded
    /\ Cardinality(performance) = 2
    /\ [date |-> Yesterday, total_value |-> R(0)] \in performance
    /\ [date |-> Today, total_value |-> R(1098)] \in performance

(***************************************************************************)
(* C6: a committed Submit (Shares) or Submit (Options) appends exactly one *)
(* activity-log entry when its delta is not 0 and none when it is 0 (so a  *)
(* closure is logged iff its delta was non-zero); nothing else appends,    *)
(* and existing entries are never modified or removed.                     *)
(***************************************************************************)
Committed(s) ==
    /\ run[s].pc = "show"
    /\ run[s].clicked \in LogButtons
    /\ hist'[s].outcome \in {"close", "update"}

C6_ActivityLog ==
    [][/\ Len(portfolio_activity') >= Len(portfolio_activity)
       /\ SubSeq(portfolio_activity', 1, Len(portfolio_activity)) = portfolio_activity
       /\ \A s \in Sessions :
            Committed(s) =>
                Len(portfolio_activity') =
                    Len(portfolio_activity) + (IF hist'[s].delta # 0 THEN 1 ELSE 0)
       /\ (\A s \in Sessions : ~Committed(s)) =>
            portfolio_activity' = portfolio_activity]_vars

C6_Witness ==
    /\ Submitted(1, "options")
    /\ hist[1].outcome = "close"
    /\ hist[1].delta = -1
    /\ Len(portfolio_activity) = Len(hist[1].before.portfolio_activity) + 1
    /\ portfolio_activity[Len(portfolio_activity)].action = "SOLD"

(***************************************************************************)
(* C9: the refresh re-prices and writes back all stored equity positions,  *)
(* then all stored option positions, and only then upserts the snapshot;   *)
(* its total_value is sum(shares_held*current_price)                       *)
(* + sum(contracts_held*100*current_price) + original_capital              *)
(* - sum(shares_held*avg_cost) - sum(contracts_held*100*avg_cost) over the *)
(* rows as they stand after those writes (original_capital = 0 without a   *)
(* settings row).                                                          *)
(***************************************************************************)
RECURSIVE NetValue(_, _)
NetValue(rows, qty) ==
    IF rows = {} THEN R(0)
    ELSE LET r == CHOOSE x \in rows : TRUE
         IN  RAdd(RMul(R(r[qty]), RSub(r.current_price, r.avg_cost)),
                  NetValue(rows \ {r}, qty))

SnapshotValue ==
    RAdd(RAdd(NetValue(portfolio_shares, "shares_held"),
              RMul(R(100), NetValue(portfolio_options, "contracts_held"))),
         IF settings = {} THEN R(0) ELSE (CHOOSE r \in settings : TRUE).original_capital)

C9_RefreshOrder ==
    [][\A s \in OneSession :
        /\ (run[s].pc = "refresh" /\ portfolio_shares' # portfolio_shares) =>
              hist[s].written_options = {} /\ ~hist[s].recorded
        /\ (run[s].pc = "refresh" /\ portfolio_options' # portfolio_options) =>
              /\ {r.ticker : r \in portfolio_shares} \subseteq hist[s].written_shares
              /\ ~hist[s].recorded
        /\ performance' # performance =>
              /\ run[s].pc = "refresh"
              /\ {r.ticker : r \in portfolio_shares} \subseteq hist[s].written_shares
              /\ {r.id : r \in portfolio_options} \subseteq hist[s].written_options
              /\ [date |-> today, total_value |-> SnapshotValue] \in performance']_vars

C9_Witness ==
    /\ hist[1].recorded
    /\ hist[1].written_shares = {"AAPL"}
    /\ hist[1].written_options = {1, 2}
    /\ settings # {}
    /\ \E r \in portfolio_shares : r.current_price = R(0)
    /\ \E r \in portfolio_options : r.id = 1 /\ r.current_price = R(2)
    /\ [date |-> Today, total_value |-> R(1098)] \in performance

(***************************************************************************)
(* C10: each stored equity position has                                    *)
(* unrealized_pl = (current_price - avg_cost) * shares_held and each       *)
(* stored option position has                                              *)
(* unrealized_pl = (current_price - avg_cost) * contracts_held * 100; it   *)
(* is 0 whenever current_price = avg_cost.                                 *)
(***************************************************************************)
C10_UnrealizedPl ==
    /\ \A r \in portfolio_shares :
        /\ r.unrealized_pl = RMul(RSub(r.current_price, r.avg_cost), R(r.shares_held))
        /\ r.current_price = r.avg_cost => r.unrealized_pl = R(0)
    /\ \A r \in portfolio_options :
        /\ r.unrealized_pl =
              RMul(RMul(RSub(r.current_price, r.avg_cost), R(r.contracts_held)), R(100))
        /\ r.current_price = r.avg_cost => r.unrealized_pl = R(0)

C10_Witness ==
    /\ \E r \in portfolio_shares :
        r.shares_held = 3 /\ r.avg_cost = <<5, 3>> /\ r.current_price = R(0)
            /\ r.unrealized_pl = R(-5)
    /\ \E r \in portfolio_options :
        r.id = 1 /\ r.current_price = R(2) /\ r.unrealized_pl = R(100)


(***************************************************************************)
(* C11: a chain lookup failure during Submit (Options) (no chain, missing  *)
(* expiration, side or strike, or ask <= 0) aborts the operation with      *)
(* nothing persisted: when the resulting contract count is > 0 and the     *)
(* lookup fails, no option row is inserted or updated and no activity-log  *)
(* entry is appended.                                                      *)
(***************************************************************************)
LookupFails(fetch_args) ==
    LET response == fetch_args[1]
        expiration == fetch_args[2]
        side == IF fetch_args[4] = "CALL" THEN "c" ELSE "p"
        key == Format2f(fetch_args[3])
    IN  \/ ~IsSnapshot(response)
        \/ expiration \notin DOMAIN response.json["options"]
        \/ side \notin DOMAIN response.json["options"][expiration]
        \/ key \notin DOMAIN response.json["options"][expiration][side]
        \/ LET quote == response.json["options"][expiration][side][key]
           IN  "a" \notin DOMAIN quote \/ quote["a"][1] <= 0

FailedLookupAtSubmit(s) ==
    /\ Submitted(s, "options")
    /\ ResultingQuantity(s) > 0
    /\ hist[s].fetch # <<>>
    /\ LookupFails(hist[s].fetch)

C11_LookupFailureAborts ==
    \A s \in Sessions :
        FailedLookupAtSubmit(s) =>
            /\ portfolio_options = hist[s].before.portfolio_options
            /\ portfolio_activity = hist[s].before.portfolio_activity
            /\ Store = hist[s].before
            /\ run[s].pc = "idle"

C11_Witness ==
    /\ FailedLookupAtSubmit(1)
    /\ hist[1].key = <<0>>
    /\ hist[1].delta = 1
    /\ hist[1].fetch = <<[status_code |-> HTTP_OK, json |-> ThinChain], "2025-06-20",
                         R(150), "PUT">>
    /\ Cardinality(portfolio_options) = 2


(***************************************************************************)
(* C12: two sessions do not coordinate and the last write wins: when a     *)
(* session's refresh has loaded an equity position and writes it back, the *)
(* store's row of that ticker gets the shares_held and avg_cost that were  *)
(* loaded, whatever another session committed in between; a position that *)
(* was closed in between is present in the store again.                    *)
(***************************************************************************)
WritesBack(s) ==
    /\ InRefresh(s, "refresh_shares_prices")
    /\ run[s].loaded
    /\ run'[s] # run[s]

C12_LastWriteWins ==
    [][\A s \in Sessions :
        WritesBack(s) =>
            LET row == CHOOSE r \in run[s].todo : r \notin run'[s].todo
                stored == {q \in portfolio_shares' : q.ticker = row.ticker}
            IN  /\ Cardinality(stored) = 1
                /\ \A q \in stored : /\ q.shares_held = row.shares_held
                                     /\ q.avg_cost = row.avg_cost
                /\ {q \in portfolio_shares' : q.ticker # row.ticker} =
                        {q \in portfolio_shares : q.ticker # row.ticker}]_vars

C12_Witness ==
    /\ Submitted(Editor, "shares")
    /\ hist[Editor].outcome = "close"
    /\ hist[Editor].key = <<"AAPL">>
    /\ hist[Editor].before.portfolio_shares = InitShares
    /\ "AAPL" \in hist[Visitor].written_shares
    /\ \E q \in portfolio_shares :
            q.ticker = "AAPL" /\ q.shares_held = 2 /\ q.avg_cost = R(1)


(***************************************************************************)
(* C13: editing is admin-gated: a session becomes admin only by a Login,   *)
(* and a step of a session that is not admin changes no shares_held,       *)
(* contracts_held or avg_cost, not the set of positions, not the settings  *)
(* row and not the activity log (its refresh writes current_price and      *)
(* unrealized_pl of existing positions and today's snapshot only).         *)
(***************************************************************************)
IsAdmin(s) ==
    "is_admin" \in DOMAIN session_state[s] /\ session_state[s]["is_admin"]

StepOf(s) == run'[s] # run[s]

EquityHoldings ==
    {[ticker |-> r.ticker, shares_held |-> r.shares_held, avg_cost |-> r.avg_cost] :
        r \in portfolio_shares}

OptionHoldings ==
    {[id |-> r.id, symbol |-> r.symbol, call_put |-> r.call_put,
      expiration |-> r.expiration, strike |-> r.strike,
      contracts_held |-> r.contracts_held, avg_cost |-> r.avg_cost] :
        r \in portfolio_options}

C13_AdminGated ==
    [][\A s \in Sessions :
        (StepOf(s) /\ ~IsAdmin(s)) =>
            /\ IsAdmin(s)' => run[s].pc = "main" /\ run[s].clicked = "Login"
            /\ EquityHoldings' = EquityHoldings
            /\ OptionHoldings' = OptionHoldings
            /\ settings' = settings
            /\ portfolio_activity' = portfolio_activity]_vars


(***************************************************************************)
(* C14: an accepted Submit (Shares) for ticker T with delta d and a        *)
(* resulting quantity > 0 leaves the store with shares_held(T) equal to    *)
(* the shares_held stored for T immediately before the submit (0 if T had  *)
(* no row) plus d, whichever form path named T.                            *)
(***************************************************************************)
StoredSharesBefore(s, ticker) ==
    LET rows == {r \in hist[s].before.portfolio_shares : r.ticker = ticker}
    IN  IF rows = {} THEN 0 ELSE (CHOOSE r \in rows : TRUE).shares_held

C14_SharesHeldAdds ==
    \A s \in Sessions :
        (Submitted(s, "shares") /\ hist[s].outcome = "update") =>
            LET T == hist[s].key[1]
            IN  \E r \in portfolio_shares :
                    /\ r.ticker = T
                    /\ r.shares_held = StoredSharesBefore(s, T) + hist[s].delta


(***************************************************************************)
(* C15: starting from positions with avg_cost >= 0, after any sequence of  *)
(* accepted submits whose fill prices are >= 0 (buys and partial sells),   *)
(* every stored equity and option position has avg_cost >= 0.              *)
(***************************************************************************)
C15_AvgCostNonNegative ==
    (/\ \A r \in InitShares \cup InitOptions : RLe(R(0), r.avg_cost)
     /\ \A price \in FillPrices : RLe(R(0), price)) =>
        /\ \A r \in portfolio_shares : RLe(R(0), r.avg_cost)
        /\ \A r \in portfolio_options : RLe(R(0), r.avg_cost)


=============================================================================
